---- MODULE Spec2Model ----
(***************************************************************************)
(* A model of next-jwt-auth: the Session Store (three cookies), the Auth    *)
(* Controller (JWTAuthController: the axios client with its request and     *)
(* response interceptors, login / logout / refresh / profile calls) and the *)
(* Session Orchestrator (JWTAuthProvider: user, isLoggedIn, the operations  *)
(* it exposes and the polling effect).                                      *)
(*                                                                          *)
(* JavaScript runs one task at a time: every action below is one task (an   *)
(* operation up to its first network await, or the whole promise chain that *)
(* runs when one HTTP response arrives).  Several calls may be in flight at *)
(* once; the server answers each of them with any status and body.          *)
(***************************************************************************)
EXTENDS Integers, Sequences, FiniteSets, Bags, TLC

VARIABLES
  cookies,     \* the Session Store: auth.user, auth.access_token, auth.refresh_token
  user,        \* useState user
  isLoggedIn,  \* useState isLoggedIn: "null" | "true" | "false"
  isLoading,   \* JWTAuthController.isLoading
  config,      \* the JWTAuthConfig the provider was given (never changes)
  calls,       \* bag of the calls awaiting an HTTP response
  last,        \* what the last task did (observation only, never read by an action)
  resolved     \* the field-path resolution made when getPropByKeyPath is run alone

vars == <<cookies, user, isLoggedIn, isLoading, config, calls, last, resolved>>

\* ------------------------------------------------------------------ bounds
MaxCalls == 2     \* calls in flight at once
MaxDepth == 2     \* refresh calls nested under one original request
NumTokens == 2    \* distinct token pairs the server hands out
MaxNesting == 2   \* levels of objects in an object given to getPropByKeyPath
MaxPathLen == 3   \* segments of a path given to getPropByKeyPath

\* ------------------------------------------------------------------ values
\* JSON / JavaScript values: objects, leaves (0 is a falsy leaf), null, undefined.
Undefined == [t |-> "undefined"]
Null == [t |-> "null"]
JVal(v) == [t |-> "val", v |-> v]
JObj(f) == [t |-> "obj", f |-> f]

Truthy(x) == \/ x.t = "obj"
             \/ (x.t = "val" /\ x.v # 0)

\* JSON.stringify(user), as written to the auth.user cookie
Stringify(x) == [t |-> "json", of |-> x]

\* the Authorization header; token 0 is JavaScript's undefined ("Bearer undefined")
NoAuth == <<>>
Bearer(accessToken) == <<"Bearer", accessToken>>

\* ------------------------------------------------------------------ configuration
ApiBaseUrl == <<"https://awesome-api-service.com">>
LoginUrl == <<"/auth/signin">>
LogoutUrl == <<"/auth/signout">>
RefreshUrl == <<"/auth/refresh-token">>
UserUrl == <<"/auth/profile">>
AppUrl == <<"/orders">>

UserProperty == <<"user">>
AccessTokenProperty == <<"access", "token">>
AccessTokenExpireTimeProperty == <<"access", "expiresAt">>
RefreshTokenProperty == <<"refresh", "token">>
RefreshTokenExpireTimeProperty == <<"refresh", "expiresAt">>

Methods == {"post", "get"}

\* the statuses a server may use to say that the access token has expired
UnauthorizedStatusCodes == {401, 403}

\* refreshToken: is the refreshToken descriptor present; logoutUrl: is
\* endpoints.logout.url set; loginMethod, logoutMethod: endpoints.login.method and
\* endpoints.logout.method
Configs ==
  [refreshToken : BOOLEAN, logoutUrl : BOOLEAN,
   unauthorizedStatusCode : UnauthorizedStatusCodes,
   loginMethod : Methods, logoutMethod : Methods]

\* the configurations with the values of the README for the status and the methods
ReadmeConfigs ==
  {c \in Configs : /\ c.unauthorizedStatusCode = 401
                   /\ c.loginMethod = "post"
                   /\ c.logoutMethod = "post"}

\* full configurations in which the status code or the method of the logout
\* endpoint (one of the two) is another one
CustomConfigs ==
  {c \in Configs :
     /\ c.refreshToken
     /\ c.logoutUrl
     /\ c.loginMethod = "post"
     /\ (c.unauthorizedStatusCode = 401) # (c.logoutMethod = "post")}

\* fetchUser() of the provider is "fetchUser" when the application calls it, "mount"
\* when the mount effect does and "poll" when the polling effect does
FetchUserOps == {"fetchUser", "mount", "poll"}

Ops == {"app", "login", "logout", "refresh"} \cup FetchUserOps

\* the url of the request an operation sends
UrlOf(op) ==
  CASE op = "login" -> LoginUrl
    [] op = "logout" -> ApiBaseUrl \o LogoutUrl
    [] op \in FetchUserOps -> UserUrl
    [] op = "refresh" -> RefreshUrl
    [] OTHER -> AppUrl

\* the url of the request a call is waiting on: its own request at depth 0, a
\* refresh request started by onResponseError above that
ReqUrl(op, depth) == IF depth = 0 THEN UrlOf(op) ELSE RefreshUrl

\* the method of the request an operation sends (the README's methods for the
\* refresh and user endpoints; logoutFromApp looks at endpoints.login.method)
RefreshMethod == "post"
UserMethod == "get"

MethodOf(cfg, op) ==
  CASE op = "login" -> cfg.loginMethod
    [] op = "logout" -> cfg.loginMethod
    [] op \in FetchUserOps -> UserMethod
    [] op = "refresh" -> RefreshMethod
    [] OTHER -> "get"

ReqMethod(cfg, op, depth) == IF depth = 0 THEN MethodOf(cfg, op) ELSE RefreshMethod

NoReq == [url |-> <<>>, auth |-> NoAuth, method |-> ""]
Req(url, method) == [url |-> url, auth |-> NoAuth, method |-> method]

\* ------------------------------------------------------------------ server
\* A response body: user u (0: none), access token a and refresh token r (0: none)
MkBody(u, a, r) ==
  JObj([k \in (IF u # 0 THEN {"user"} ELSE {})
              \cup (IF a # 0 THEN {"access"} ELSE {})
              \cup (IF r # 0 THEN {"refresh"} ELSE {}) |->
          CASE k = "user" -> JObj([id |-> JVal(u)])
            [] k = "access" -> JObj([token |-> JVal(a), expiresAt |-> JVal(1)])
            [] OTHER -> JObj([token |-> JVal(r), expiresAt |-> JVal(1)])])

EmptyBody == MkBody(0, 0, 0)

LoginBodies ==
  {MkBody(1, p, p) : p \in 1..NumTokens}
    \cup {MkBody(0, 1, 1), MkBody(1, 0, 1), MkBody(1, 1, 0), EmptyBody}

RefreshBodies ==
  {MkBody(0, p, p) : p \in 1..NumTokens} \cup {MkBody(0, 0, 1), MkBody(0, 1, 0)}

UserBodies == {MkBody(1, 0, 0), EmptyBody}

BodiesOf(url) ==
  CASE url = LoginUrl -> LoginBodies
    [] url = RefreshUrl -> RefreshBodies
    [] url = UserUrl -> UserBodies
    [] OTHER -> {EmptyBody}

\* status 0: no response at all (network error, timeout)
SuccessStatuses == {200, 201}
ErrorStatuses == {500, 0}
NoResp == [status |-> 0, body |-> EmptyBody]

\* ------------------------------------------------------------------ Helper.ts
\* getPropByKeyPath(object, keys, defaultVal); keys is the path already split at "."
\* what a call that throws a TypeError leaves instead of a value
TypeErrorThrown == [t |-> "TypeError"]

\* object[key]: a property of an object, undefined on a leaf, a TypeError on null
\* and undefined
Index(object, key) ==
  IF object.t \in {"null", "undefined"} THEN TypeErrorThrown
  ELSE IF object.t = "obj" /\ key \in DOMAIN object.f THEN object.f[key]
  ELSE Undefined

RECURSIVE getPropByKeyPath(_, _, _)
getPropByKeyPath(object, keys, defaultVal) ==
  LET o == Index(object, keys[1])
  IN IF o = TypeErrorThrown THEN o
     ELSE IF Truthy(o) /\ Len(keys) > 1
     THEN getPropByKeyPath(o, Tail(keys), defaultVal)
     ELSE IF o = Undefined THEN defaultVal ELSE o

\* The objects and paths getPropByKeyPath is run on alone: objects of up to
\* MaxNesting levels over two keys, with a falsy leaf, a truthy leaf or null at
\* the ends, and paths of up to MaxPathLen segments.
PathKeys == {"a", "b"}
PathLeaves == {JVal(0), JVal(1), Null}

RECURSIVE PathObjects(_)
PathObjects(n) ==
  LET values == IF n = 1 THEN PathLeaves ELSE PathLeaves \cup PathObjects(n - 1)
  IN {JObj(f) : f \in UNION {[D -> values] : D \in SUBSET PathKeys}}

Paths == UNION {[1..n -> PathKeys] : n \in 1..MaxPathLen}

NoResolution == [object |-> Null, keys |-> <<>>, result |-> Undefined]

\* ------------------------------------------------------------------ Session Store
\* a token cookie holds the token string (0: no cookie); the user cookie the JSON text
NoCookies == [user |-> Undefined, access |-> 0, refresh |-> 0]

getAccessToken(ck) == ck.access

getRefreshToken(ck) == ck.refresh

\* the cookie value of a token leaf
TokenString(x) == IF x.t = "val" THEN x.v ELSE 0

\* ------------------------------------------------------------------ JWTAuthController
\* faulty variant: the header is attached only when an access token is stored
onRequestProcess_OnlyWhenPresent(req, ck) ==
  IF req.url # LoginUrl /\ getAccessToken(ck) # 0
  THEN [req EXCEPT !.auth = Bearer(getAccessToken(ck))]
  ELSE req

\* the request interceptor
onRequestProcess(req, ck) ==
  IF req.url # LoginUrl
  THEN [req EXCEPT !.auth = Bearer(getAccessToken(ck))]
  ELSE req

onLogoutRequestComplete(ck) == [ck EXCEPT !.user = Undefined, !.access = 0, !.refresh = 0]

\* What a controller function leaves behind: threw ("" when it returned), the
\* value it returned, the store and the loading flag.
Returned(value, ck, loading) ==
  [threw |-> "", value |-> value, cookies |-> ck, loading |-> loading]
Threw(err, ck, loading) ==
  [threw |-> err, value |-> Undefined, cookies |-> ck, loading |-> loading]

\* faulty variant: the access token cookie is written before the pair is checked
onTokenPairUpdated_WritesAccessFirst(cfg, response, ck, loading) ==
  IF ~cfg.refreshToken
  THEN Threw("TypeError", ck, loading)
  ELSE LET accessToken == getPropByKeyPath(response, AccessTokenProperty, Null)
           refreshToken == getPropByKeyPath(response, RefreshTokenProperty, Null)
           written == IF Truthy(accessToken)
                      THEN [ck EXCEPT !.access = TokenString(accessToken)]
                      ELSE ck
       IN IF ~Truthy(accessToken) \/ ~Truthy(refreshToken)
          THEN Threw("Token not found in response", written, loading)
          ELSE Returned(
                 [accessToken |-> accessToken, refreshToken |-> refreshToken],
                 [written EXCEPT !.refresh = TokenString(refreshToken)],
                 loading)

\* faulty variant: only the access token cookie is written
onTokenPairUpdated_DropsRefresh(cfg, response, ck, loading) ==
  IF ~cfg.refreshToken
  THEN Threw("TypeError", ck, loading)
  ELSE LET accessToken == getPropByKeyPath(response, AccessTokenProperty, Null)
           refreshToken == getPropByKeyPath(response, RefreshTokenProperty, Null)
       IN IF ~Truthy(accessToken) \/ ~Truthy(refreshToken)
          THEN Threw("Token not found in response", ck, loading)
          ELSE Returned(
                 [accessToken |-> accessToken, refreshToken |-> refreshToken],
                 [ck EXCEPT !.access = TokenString(accessToken)],
                 loading)

onTokenPairUpdated(cfg, response, ck, loading) ==
  IF ~cfg.refreshToken
  THEN \* this.config.refreshToken.property of an undefined descriptor
       Threw("TypeError", ck, loading)
  ELSE LET accessToken == getPropByKeyPath(response, AccessTokenProperty, Null)
           refreshToken == getPropByKeyPath(response, RefreshTokenProperty, Null)
       IN IF ~Truthy(accessToken) \/ ~Truthy(refreshToken)
          THEN Threw("Token not found in response", ck, loading)
          ELSE Returned(
                 [accessToken |-> accessToken, refreshToken |-> refreshToken],
                 [ck EXCEPT !.access = TokenString(accessToken),
                            !.refresh = TokenString(refreshToken)],
                 loading)

onLoginRequestComplete(cfg, response, ck, loading) ==
  LET u == getPropByKeyPath(response, UserProperty, Null)
  IN IF ~Truthy(u)
     THEN Threw("Unexpected response from API, please recheck", ck, loading)
     ELSE LET withUser == [ck EXCEPT !.user = Stringify(u)]
              pair == onTokenPairUpdated(cfg, response, withUser, loading)
          IN IF pair.threw # "" THEN pair ELSE [pair EXCEPT !.value = u]

\* the error axios rejects a request with
AxiosError(status) ==
  CASE status = 401 -> "status 401"
    [] status = 403 -> "status 403"
    [] OTHER -> "status 500"

\* The response interceptors' answer to one HTTP response.  Either the call goes
\* on waiting (pending, at a new depth, for the request sent) or the promise
\* of its own request settles: fulfilled with the response, or rejected.
Pending(depth, sent, ck, loading) ==
  [pending |-> TRUE, depth |-> depth, sent |-> sent, threw |-> "",
   cookies |-> ck, loading |-> loading]
Fulfilled(ck, loading) ==
  [pending |-> FALSE, depth |-> 0, sent |-> NoReq, threw |-> "",
   cookies |-> ck, loading |-> loading]
Rejected(err, ck, loading) ==
  [pending |-> FALSE, depth |-> 0, sent |-> NoReq, threw |-> err,
   cookies |-> ck, loading |-> loading]

\* faulty variant: the catch block of onResponseError does not empty the store
RefreshFailed_KeepsStore(depth, ck, loading) ==
  Rejected(AxiosError(401), ck, loading)

\* The catch block of onResponseError for the request at `depth`, and what follows:
\* the store is emptied and the request is rejected with its own 401 error; at
\* depth > 0 that request was a refresh call, its rejection makes refreshAccessToken
\* throw inside the onResponseError of the request one level down, and so on.
RECURSIVE RefreshFailed(_, _, _)
RefreshFailed(depth, ck, loading) ==
  IF depth = 0
  THEN Rejected(AxiosError(401), onLogoutRequestComplete(ck), loading)
  ELSE RefreshFailed(depth - 1, onLogoutRequestComplete(ck), loading)

\* faulty variant: the refresh call is made without looking for a stored refresh token
refreshAccessTokenSend_NoCheck(ck) ==
  [threw |-> "", sent |-> onRequestProcess(Req(RefreshUrl, RefreshMethod), ck)]

\* refreshAccessToken up to its request
refreshAccessTokenSend(ck) ==
  IF getRefreshToken(ck) = 0
  THEN [threw |-> "Refresh token not found", sent |-> NoReq]
  ELSE [threw |-> "", sent |-> onRequestProcess(Req(RefreshUrl, RefreshMethod), ck)]

\* refreshAccessToken from its response on
refreshAccessTokenReceive(cfg, resp, ck, loading) ==
  IF resp.status # 200
  THEN Threw("Request failed with status", ck, loading)
  ELSE onTokenPairUpdated(cfg, resp.body, ck, loading)

\* onResponseError(error) for the request of call `c` (the rejected handler of the
\* response interceptor), with the continuation of the refresh call it awaits
onResponseError(cfg, c, resp, ck, loading) ==
  IF resp.status = 0
  THEN \* error.response is undefined
       IF c.depth = 0
       THEN Rejected("TypeError", ck, loading)
       ELSE RefreshFailed(c.depth - 1, ck, loading)
  ELSE IF resp.status = 401
  THEN LET r == refreshAccessTokenSend(ck)
       IN IF r.threw # ""
          THEN RefreshFailed(c.depth, ck, TRUE)
          ELSE Pending(c.depth + 1, r.sent, ck, TRUE)
  ELSE IF c.depth = 0
       THEN Rejected(AxiosError(resp.status), ck, loading)
       ELSE RefreshFailed(c.depth - 1, ck, loading)

\* faulty variant: after the refresh the original request is not returned again but falls
\* through to the rejection with the original error
onResponse_NoReplay(cfg, c, resp, ck, loading) ==
  IF c.depth = 0
  THEN Fulfilled(ck, loading)
  ELSE LET r == refreshAccessTokenReceive(cfg, resp, ck, loading)
       IN IF r.threw # ""
          THEN RefreshFailed(c.depth - 1, r.cookies, loading)
          ELSE IF c.depth = 1
          THEN Rejected(AxiosError(401), r.cookies, loading)
          ELSE RefreshFailed(c.depth - 2, r.cookies, loading)

\* a fulfilled response: passed through by the response interceptor; at depth > 0
\* it answers the refresh call of the onResponseError one level down, which
\* stores the pair and sends the original request again
onResponse(cfg, c, resp, ck, loading) ==
  IF c.depth = 0
  THEN Fulfilled(ck, loading)
  ELSE LET r == refreshAccessTokenReceive(cfg, resp, ck, loading)
       IN IF r.threw # ""
          THEN RefreshFailed(c.depth - 1, r.cookies, loading)
          ELSE LET requestConfig ==
                     [Req(ReqUrl(c.op, c.depth - 1),
                          ReqMethod(cfg, c.op, c.depth - 1)) EXCEPT
                        !.auth = Bearer(TokenString(r.value.accessToken))]
               IN Pending(c.depth - 1, onRequestProcess(requestConfig, r.cookies),
                          r.cookies, loading)

\* The controller operation that sent the call's own request, from the point where
\* that request settled (`chain`: fulfilled with `resp`, or rejected).
loginWithUsernamePassword(cfg, chain, resp) ==
  IF chain.threw # ""
  THEN Threw(chain.threw, chain.cookies, chain.loading)
  ELSE IF resp.status # 200
  THEN Threw("Request failed with status", chain.cookies, chain.loading)
  ELSE onLoginRequestComplete(cfg, resp.body, chain.cookies, chain.loading)

logoutFromApp(cfg, chain, resp) ==
  IF chain.threw # ""
  THEN Threw(chain.threw, chain.cookies, chain.loading)
  ELSE IF resp.status # 200
  THEN Threw("Request failed with status", chain.cookies, chain.loading)
  ELSE Returned(JVal(1), onLogoutRequestComplete(chain.cookies), chain.loading)

fetchUserProfile(cfg, chain, resp) ==
  IF chain.threw # ""
  THEN Threw(chain.threw, chain.cookies, chain.loading)
  ELSE IF resp.status # 200
  THEN Threw("User profile fetch API failed", chain.cookies, chain.loading)
  ELSE Returned(getPropByKeyPath(resp.body, UserProperty, Null),
                chain.cookies, chain.loading)

refreshAccessToken(cfg, chain, resp) ==
  IF chain.threw # ""
  THEN Threw(chain.threw, chain.cookies, chain.loading)
  ELSE refreshAccessTokenReceive(cfg, resp, chain.cookies, chain.loading)

\* a request of the application itself through getHttpClient()
apiClientCall(cfg, chain, resp) ==
  IF chain.threw # ""
  THEN Threw(chain.threw, chain.cookies, chain.loading)
  ELSE Returned(resp.body, chain.cookies, chain.loading)

Controller(cfg, op, chain, resp) ==
  CASE op = "login" -> loginWithUsernamePassword(cfg, chain, resp)
    [] op = "logout" -> logoutFromApp(cfg, chain, resp)
    [] op \in FetchUserOps -> fetchUserProfile(cfg, chain, resp)
    [] op = "refresh" -> refreshAccessToken(cfg, chain, resp)
    [] OTHER -> apiClientCall(cfg, chain, resp)

\* ------------------------------------------------------------------ JWTAuthProvider
\* What an orchestrator operation leaves behind; ret is what its caller gets
\* ("throw": the error is raised again), nav whether router.push(pages.login.url)
\* ran, errors how many times onError was called.
Outcome(ck, loading, u, loggedIn, nav, ret) ==
  [cookies |-> ck, loading |-> loading, user |-> u, isLoggedIn |-> loggedIn,
   nav |-> nav, ret |-> ret, errors |-> 0]

\* faulty variant: the error handler leaves the store as it is
onError_KeepsStore(ck, ret) ==
  [Outcome(ck, FALSE, Null, "false", TRUE, ret) EXCEPT !.errors = 1]

onError(ck, ret) ==
  [Outcome(onLogoutRequestComplete(ck), FALSE, Null, "false", TRUE, ret)
     EXCEPT !.errors = 1]

\* r: what the controller operation left behind
loginWithCredentials(r) ==
  IF r.threw # "" THEN onError(r.cookies, "throw")
  ELSE Outcome(r.cookies, FALSE, r.value, "true", FALSE, "true")

loginWithResponse(r) ==
  IF r.threw # "" THEN onError(r.cookies, "throw")
  ELSE Outcome(r.cookies, FALSE, r.value, "true", FALSE, "true")

logout(r) ==
  IF r.threw # "" THEN onError(r.cookies, "false")
  ELSE Outcome(r.cookies, FALSE, Null, "false", TRUE, "true")

\* faulty variant: user and isLoggedIn are set without looking at the user returned
fetchUser_NoUserCheck(r, u, loggedIn) ==
  IF r.threw # "" THEN onError(r.cookies, "void")
  ELSE Outcome(r.cookies, FALSE, r.value, "true", FALSE, "void")

fetchUser(r, u, loggedIn) ==
  IF r.threw # "" THEN onError(r.cookies, "void")
  ELSE IF Truthy(r.value)
  THEN Outcome(r.cookies, FALSE, r.value, "true", FALSE, "void")
  ELSE Outcome(r.cookies, FALSE, u, loggedIn, FALSE, "void")

\* faulty variant: the catch block does not call the error handler
onRefreshToken_Swallows(r, u, loggedIn) ==
  Outcome(r.cookies, FALSE, u, loggedIn, FALSE, "void")

onRefreshToken(r, u, loggedIn) ==
  IF r.threw # "" THEN onError(r.cookies, "void")
  ELSE Outcome(r.cookies, FALSE, u, loggedIn, FALSE, "void")

\* the application's own await of a request through apiClient()
apiClient(r, u, loggedIn) ==
  Outcome(r.cookies, r.loading, u, loggedIn, FALSE,
          IF r.threw # "" THEN "throw" ELSE "response")

Orchestrator(op, r, u, loggedIn) ==
  CASE op = "login" -> loginWithCredentials(r)
    [] op = "logout" -> logout(r)
    [] op \in FetchUserOps -> fetchUser(r, u, loggedIn)
    [] op = "refresh" -> onRefreshToken(r, u, loggedIn)
    [] OTHER -> apiClient(r, u, loggedIn)

\* ------------------------------------------------------------------ tasks
Call(op, depth) == [op |-> op, depth |-> depth]

InFlight == BagToSet(calls)
CanSend == BagCardinality(calls) < MaxCalls

\* `last`: ev is what the task did ("send": an operation sent its request,
\* "refresh": onResponseError sent a refresh call, "replay": it sent the original
\* request again, "settle": a call's operation finished, "sync": an operation
\* finished without any request, "skip": nothing was done), op/depth the call,
\* sent the request that left, resp the response handled, threw what the
\* controller operation threw, ctl the store as the controller operation left it,
\* ret and nav as in Outcome; errors (0 unless an orchestrator operation finished)
\* as in Outcome.
Last(ev, op, depth, sent, resp, threw, ctl, ret, nav) ==
  [ev |-> ev, op |-> op, depth |-> depth, sent |-> sent, resp |-> resp,
   threw |-> threw, ctl |-> ctl, ret |-> ret, nav |-> nav, errors |-> 0]

\* an operation sends its request and awaits it
Send(op, loading) ==
  LET sent == onRequestProcess(Req(UrlOf(op), MethodOf(config, op)), cookies)
  IN /\ CanSend
     /\ calls' = calls (+) SetToBag({Call(op, 0)})
     /\ isLoading' = loading
     /\ last' = Last("send", op, 0, sent, NoResp, "", cookies, "", FALSE)
     /\ UNCHANGED <<cookies, user, isLoggedIn, config, resolved>>

\* an operation finishes: r is what its controller part left behind
Finish(ev, op, depth, resp, r, others) ==
  LET o == Orchestrator(op, r, user, isLoggedIn)
  IN /\ cookies' = o.cookies
     /\ isLoading' = o.loading
     /\ user' = o.user
     /\ isLoggedIn' = o.isLoggedIn
     /\ calls' = others
     /\ last' = [Last(ev, op, depth, NoReq, resp, r.threw, r.cookies, o.ret, o.nav)
                   EXCEPT !.errors = o.errors]
     /\ UNCHANGED <<config, resolved>>

\* the interceptors sent another request for call c, which goes on waiting
Continue(ev, c, resp, chain) ==
  /\ chain.depth <= MaxDepth
  /\ calls' = (calls (-) SetToBag({c})) (+) SetToBag({Call(c.op, chain.depth)})
  /\ cookies' = chain.cookies
  /\ isLoading' = chain.loading
  /\ last' = Last(ev, c.op, c.depth, chain.sent, resp, "", chain.cookies, "", FALSE)
  /\ UNCHANGED <<user, isLoggedIn, config, resolved>>

Skip(op) ==
  /\ last' = Last("skip", op, 0, NoReq, NoResp, "", cookies, "", FALSE)
  /\ UNCHANGED <<cookies, user, isLoggedIn, isLoading, config, calls, resolved>>

\* the application calls an API of its own through apiClient()
AppRequest == Send("app", isLoading)

LoginWithCredentials == Send("login", TRUE)

LoginWithResponse ==
  \E data \in LoginBodies :
    /\ LET r == onLoginRequestComplete(config, data, cookies, isLoading)
           o == loginWithResponse(r)
       IN /\ cookies' = o.cookies
          /\ isLoading' = o.loading
          /\ user' = o.user
          /\ isLoggedIn' = o.isLoggedIn
          /\ last' = [Last("sync", "loginWithResponse", 0, NoReq,
                           [status |-> 200, body |-> data],
                           r.threw, r.cookies, o.ret, o.nav)
                        EXCEPT !.errors = o.errors]
    /\ UNCHANGED <<config, calls, resolved>>

Logout ==
  IF config.logoutUrl
  THEN Send("logout", TRUE)
  ELSE Finish("sync", "logout", 0, NoResp,
              Returned(JVal(1), onLogoutRequestComplete(cookies), TRUE), calls)

\* fetchUser() of the provider, up to the request
FetchUserStart(op) ==
  IF getRefreshToken(cookies) = 0
  THEN Skip(op)
  ELSE Send(op, TRUE)

FetchUser == FetchUserStart("fetchUser")

OnRefreshToken ==
  LET r == refreshAccessTokenSend(cookies)
  IN IF r.threw # ""
     THEN Finish("sync", "refresh", 0, NoResp, Threw(r.threw, cookies, TRUE), calls)
     ELSE Send("refresh", TRUE)

\* one tick of the setInterval of the polling effect
PollTick ==
  /\ isLoggedIn = "true"
  /\ getAccessToken(cookies) = 0
  /\ ~isLoading
  /\ FetchUserStart("poll")

\* the page is loaded again: the provider is constructed anew over the cookies the
\* browser kept, the requests of the old page are gone, the mount effect runs
Reload ==
  /\ user' = Null
  /\ isLoggedIn' = "null"
  /\ UNCHANGED <<cookies, config, resolved>>
  /\ IF getRefreshToken(cookies) = 0
     THEN /\ calls' = EmptyBag
          /\ isLoading' = FALSE
          /\ last' = Last("skip", "mount", 0, NoReq, NoResp, "", cookies, "", FALSE)
     ELSE /\ calls' = SetToBag({Call("mount", 0)})
          /\ isLoading' = TRUE
          /\ last' = Last("send", "mount", 0,
                          onRequestProcess(Req(UserUrl, UserMethod), cookies),
                          NoResp, "", cookies, "", FALSE)

\* a token cookie reaches its expires date
ExpireAccessToken ==
  /\ cookies.access # 0
  /\ cookies' = [cookies EXCEPT !.access = 0]
  /\ last' = Last("expire", "none", 0, NoReq, NoResp, "", cookies', "", FALSE)
  /\ UNCHANGED <<user, isLoggedIn, isLoading, config, calls, resolved>>

ExpireRefreshToken ==
  /\ cookies.refresh # 0
  /\ cookies' = [cookies EXCEPT !.refresh = 0]
  /\ last' = Last("expire", "none", 0, NoReq, NoResp, "", cookies', "", FALSE)
  /\ UNCHANGED <<user, isLoggedIn, isLoading, config, calls, resolved>>

\* the response to the request of call c arrives
Receive(c, resp, chain) ==
  IF chain.pending
  THEN Continue(IF chain.depth > c.depth THEN "refresh" ELSE "replay", c, resp, chain)
  ELSE Finish("settle", c.op, c.depth, resp, Controller(config, c.op, chain, resp),
              calls (-) SetToBag({c}))

ResponseUnauthorized ==
  \E c \in InFlight :
    LET resp == [status |-> 401, body |-> EmptyBody]
    IN Receive(c, resp, onResponseError(config, c, resp, cookies, isLoading))

ResponseError ==
  \E c \in InFlight,
     status \in ErrorStatuses \cup ({config.unauthorizedStatusCode} \ {401}) :
    LET resp == [status |-> status, body |-> EmptyBody]
    IN Receive(c, resp, onResponseError(config, c, resp, cookies, isLoading))

ResponseSuccess ==
  \E c \in InFlight, status \in SuccessStatuses :
    \E body \in (IF status = 200 THEN BodiesOf(ReqUrl(c.op, c.depth)) ELSE {EmptyBody}) :
      LET resp == [status |-> status, body |-> body]
      IN Receive(c, resp, onResponse(config, c, resp, cookies, isLoading))

\* the state after construction and the mount effect in a browser without cookies
Started ==
  /\ cookies = NoCookies
  /\ user = Null
  /\ isLoggedIn = "null"
  /\ isLoading = FALSE
  /\ calls = EmptyBag
  /\ last = Last("skip", "mount", 0, NoReq, NoResp, "", NoCookies, "", FALSE)
  /\ resolved = NoResolution

Init ==
  /\ config \in ReadmeConfigs
  /\ Started

CustomInit ==
  /\ config \in CustomConfigs
  /\ Started

Next ==
  \/ AppRequest
  \/ LoginWithCredentials
  \/ LoginWithResponse
  \/ Logout
  \/ FetchUser
  \/ OnRefreshToken
  \/ PollTick
  \/ Reload
  \/ ExpireAccessToken
  \/ ExpireRefreshToken
  \/ ResponseUnauthorized
  \/ ResponseError
  \/ ResponseSuccess

Spec == Init /\ [][Next]_vars


\* the response to the request of one call like c arrives
Answer(c) ==
  /\ ResponseUnauthorized \/ ResponseError \/ ResponseSuccess
  /\ CopiesIn(c, calls') < CopiesIn(c, calls)

\* A session in which the application logs in with a response it already has and
\* then only sends requests of its own through apiClient(); the rest is what runs
\* without the application asking for it.
SessionNext ==
  \/ LoginWithResponse
  \/ AppRequest
  \/ PollTick
  \/ ExpireAccessToken
  \/ ExpireRefreshToken
  \/ ResponseUnauthorized
  \/ ResponseError
  \/ ResponseSuccess

\* such a session, with logout(), under the configurations of CustomConfigs
CustomNext ==
  \/ SessionNext
  \/ Logout

CustomSpec == CustomInit /\ [][CustomNext]_vars

\* The setInterval of the polling effect keeps firing, and every request in flight
\* is answered in the end (with some status, or with no response at all when it
\* times out).
FairSpec ==
  /\ Init
  /\ [][SessionNext]_vars
  /\ WF_vars(PollTick)
  /\ \A c \in [op : {"app", "poll"}, depth : 0..MaxDepth] : WF_vars(Answer(c))

\* getPropByKeyPath run alone, once, on any object and any path
Resolve ==
  /\ resolved = NoResolution
  /\ \E object \in PathObjects(MaxNesting), keys \in Paths :
       resolved' = [object |-> object, keys |-> keys,
                    result |-> getPropByKeyPath(object, keys, Null)]
  /\ UNCHANGED <<cookies, user, isLoggedIn, isLoading, config, calls, last>>

PathSpec == Init /\ [][Resolve]_vars

TypeOK ==
  /\ config \in Configs
  /\ isLoading \in BOOLEAN
  /\ isLoggedIn \in {"null", "true", "false"}
  /\ cookies.access \in 0..NumTokens
  /\ cookies.refresh \in 0..NumTokens
  /\ BagCardinality(calls) <= MaxCalls
  /\ \A c \in InFlight : c.op \in Ops /\ c.depth \in 0..MaxDepth

\* ------------------------------------------------------------------ claims
\* the last task handled the HTTP response to a request of a call
Answered == last.ev \in {"refresh", "replay", "settle"}

\* the calls waiting on a refresh call that onResponseError started
AwaitingRefresh == {c \in InFlight : c.depth >= 1}

BodyAccessToken(body) == getPropByKeyPath(body, AccessTokenProperty, Null)
BodyRefreshToken(body) == getPropByKeyPath(body, RefreshTokenProperty, Null)
BodyUser(body) == getPropByKeyPath(body, UserProperty, Null)

\* C1: at most one refresh call started by the response interceptor is in flight
\* at any time, however many requests were answered with 401.
C1_AtMostOneRefreshInFlight ==
  BagCardinality([c \in AwaitingRefresh |-> calls[c]]) <= 1

\* C2: when the refresh made for a request that failed with 401 succeeds and the
\* request is sent again, every request that failed with 401 meanwhile is sent
\* again with it: none is left waiting for a refresh of its own (whose token
\* would be another one, or which may fail and lose the retry).
C2_AllReplayedBySharedRefresh ==
  (last.ev = "replay" /\ last.depth = 1) => AwaitingRefresh = {}

\* a request was answered 401 with a refresh token stored (so a refresh call was
\* made for it, depth >= 1) and the refresh endpoint answers 200 with both tokens
C3_ValidRefreshAnswer ==
  /\ Answered
  /\ last.depth >= 1
  /\ last.resp.status = 200
  /\ Truthy(BodyAccessToken(last.resp.body))
  /\ Truthy(BodyRefreshToken(last.resp.body))

\* C3: when the refresh call made for a request answered 401 is answered with a
\* valid pair, the pair is stored, the original request is sent again with
\* Authorization: Bearer <new access token>, and its caller is not rejected but
\* goes on waiting, now for the outcome of the replay.
C3_RefreshThenReplay ==
  C3_ValidRefreshAnswer =>
    /\ cookies.access = TokenString(BodyAccessToken(last.resp.body))
    /\ cookies.refresh = TokenString(BodyRefreshToken(last.resp.body))
    /\ last.ev = "replay"
    /\ last.sent.url = ReqUrl(last.op, last.depth - 1)
    /\ last.sent.auth = Bearer(TokenString(BodyAccessToken(last.resp.body)))
    /\ Call(last.op, last.depth - 1) \in InFlight

C3_Witness ==
  /\ C3_ValidRefreshAnswer
  /\ last.op = "app"
  /\ last.sent.url = AppUrl
  /\ last.sent.auth = Bearer(2)
  /\ cookies.access = 2

\* the refresh attempt made for a request answered 401 failed: no refresh token
\* was stored (the 401 itself ends the call) or the refresh call brought no pair
C4_RefreshAttemptFailed ==
  /\ last.ev = "settle"
  /\ (last.resp.status = 401 \/ last.depth >= 1)

\* C4: when the refresh attempt made for a request answered 401 fails, all three
\* store entries are removed and the caller of the original request is rejected
\* with the original 401 error.
C4_TeardownOnRefreshFailure ==
  C4_RefreshAttemptFailed =>
    /\ last.ctl = NoCookies
    /\ cookies = NoCookies
    /\ last.threw = AxiosError(401)
    /\ (last.op = "app" => last.ret = "throw")

C4_Witness ==
  /\ C4_RefreshAttemptFailed
  /\ last.op = "app"
  /\ last.depth = 1
  /\ last.resp.status = 200
  /\ user # Null

\* C5: without the refreshToken descriptor no request to the refresh endpoint is
\* ever sent or in flight, and a 401 answer ends the call at once with the store
\* empty.
C5_NoRefreshWithoutDescriptor ==
  ~config.refreshToken =>
    /\ \A c \in InFlight : ReqUrl(c.op, c.depth) # RefreshUrl
    /\ last.sent.url # RefreshUrl
    /\ (Answered /\ last.resp.status = 401) =>
         (last.ev = "settle" /\ cookies = NoCookies /\ last.ctl = NoCookies)

C5_Witness ==
  /\ ~config.refreshToken
  /\ Answered
  /\ last.resp.status = 401
  /\ last.op = "app"

\* C6: no request sent to the login endpoint carries an Authorization header.
C6_LoginNeverCarriesAuthorization ==
  last.sent.url = LoginUrl => last.sent.auth = NoAuth

\* C7: every request sent to another endpoint than login carries Bearer <the
\* access token stored when it is sent> (stored or not, valid or not).
C7_BearerOfStoredToken ==
  (last.sent # NoReq /\ last.sent.url # LoginUrl) =>
    last.sent.auth = Bearer(getAccessToken(cookies))

C7_Witness ==
  /\ last.sent.url = ApiBaseUrl \o LogoutUrl
  /\ last.sent.auth = Bearer(0)
  /\ cookies.refresh # 0

\* logout() of the provider has settled in the last task
C8_LogoutSettled ==
  /\ last.op = "logout"
  /\ last.ev \in {"settle", "sync"}

\* C8: when logout() of the provider has settled, whatever the logout endpoint
\* answered, the store is empty, user is null, isLoggedIn is false and the login
\* page was navigated to.
C8_LogoutAlwaysClears ==
  C8_LogoutSettled =>
    /\ cookies = NoCookies
    /\ user = Null
    /\ isLoggedIn = "false"
    /\ last.nav

C8_Witness ==
  /\ C8_LogoutSettled
  /\ last.resp.status = 500
  /\ last.ctl.access # 0
  /\ last.ret = "false"

\* C9: when logoutFromApp of the controller has settled, the store as it left it
\* is empty, whatever the logout endpoint answered.
C9_ControllerLogoutClears ==
  C8_LogoutSettled => last.ctl = NoCookies

\* a login response is ingested (by loginWithResponse, or as the 200 answer to
\* the login call) and its access-token or refresh-token path resolves to nothing
C10_IngestedWithoutToken ==
  /\ config.refreshToken
  /\ last.ev \in {"settle", "sync"}
  /\ last.op \in {"login", "loginWithResponse"}
  /\ last.depth = 0
  /\ last.resp.status = 200
  /\ (~Truthy(BodyAccessToken(last.resp.body))
        \/ ~Truthy(BodyRefreshToken(last.resp.body)))

C11_LoggedInHasUser ==
  isLoggedIn = "true" => user # Null

\* logged in, and the profile fetch just answered 200 without a user
C11_Witness ==
  /\ isLoggedIn = "true"
  /\ user # Null
  /\ last.ev = "settle"
  /\ last.op = "fetchUser"
  /\ last.resp.status = 200
  /\ ~Truthy(BodyUser(last.resp.body))

\* C12: in every state of the orchestrator, isLoggedIn = false implies user is null
\* and neither an access token nor a refresh token is stored, also when a call
\* that was in flight completes after a logout or after the error handler ran.
C12_LoggedOutHasNothing ==
  isLoggedIn = "false" =>
    /\ user = Null
    /\ getAccessToken(cookies) = 0
    /\ getRefreshToken(cookies) = 0

\* a request of the application was answered 401, the refresh attempt made for it
\* failed and the interceptor emptied the store, with the orchestrator logged in
C13_SessionTornDown ==
  /\ C4_RefreshAttemptFailed
  /\ last.op = "app"
  /\ last.threw = AxiosError(401)
  /\ isLoggedIn = "true"

\* C13: whenever the session was torn down after a failed refresh, the orchestrator
\* eventually leaves isLoggedIn = true (the claim: for user = null, isLoggedIn =
\* false and the login page), unless a later login stores a new session first: the
\* user is not left logged in for ever over the store that was emptied.
C13_TornDownLeadsToLoggedOut ==
  C13_SessionTornDown ~> (isLoggedIn # "true" \/ getRefreshToken(cookies) # 0)

\* C14: a response (to a request sent while a refresh token is stored) makes the
\* response interceptor send a refresh call exactly when its status is the
\* configured unauthorizedStatusCode: with 403 configured, a 403 answer starts the
\* refresh and a 401 answer does not.
C14_RefreshOnConfiguredStatus ==
  [][(Answered' /\ last'.resp.status # 0 /\ getRefreshToken(cookies) # 0) =>
       ((last'.ev = "refresh") <=>
          (last'.resp.status = config.unauthorizedStatusCode))]_vars

\* the last task sent a request again after a successful refresh, and that replay
\* is the only request of its operation in flight
C15_ReplayJustSent ==
  /\ last.ev = "replay"
  /\ last.depth = 1
  /\ CopiesIn(Call(last.op, 0), calls) = 1

\* C15: a request is sent again at most once: when the replay made after a
\* successful refresh is itself answered 401, no further refresh call is made for
\* it and its caller gets the replay's error.
C15_ReplayedAtMostOnce ==
  [][(/\ C15_ReplayJustSent
      /\ Answered'
      /\ last'.op = last.op
      /\ last'.depth = 0
      /\ last'.resp.status = 401) =>
       (last'.ev = "settle" /\ last'.threw = AxiosError(401))]_vars

\* a login response was ingested with success (by loginWithResponse, or as the
\* 200 answer to the login call of loginWithCredentials)
C16_LoginIngested ==
  /\ last.ev \in {"settle", "sync"}
  /\ last.op \in {"login", "loginWithResponse"}
  /\ last.threw = ""

\* C16: right after a successful login ingestion of a response whose access-token
\* path holds A and whose refresh-token path holds R, the stored access token
\* reads A, the stored refresh token reads R and the user returned (and set) is
\* the value at the user path.
C16_TokenRoundTrip ==
  C16_LoginIngested =>
    /\ getAccessToken(cookies) = TokenString(BodyAccessToken(last.resp.body))
    /\ getRefreshToken(cookies) = TokenString(BodyRefreshToken(last.resp.body))
    /\ Truthy(BodyAccessToken(last.resp.body))
    /\ Truthy(BodyRefreshToken(last.resp.body))
    /\ user = BodyUser(last.resp.body)
    /\ cookies.user = Stringify(BodyUser(last.resp.body))
    /\ last.ret = "true"

C16_Witness ==
  /\ C16_LoginIngested
  /\ last.op = "login"
  /\ getAccessToken(cookies) = 2
  /\ getRefreshToken(cookies) = 2
  /\ calls # EmptyBag

\* the value at the end of a path all of whose segments exist (each one a
\* property of an object), undefined when a segment is missing
RECURSIVE C17_ValueAt(_, _)
C17_ValueAt(object, keys) ==
  IF object.t = "obj" /\ keys[1] \in DOMAIN object.f
  THEN IF Len(keys) = 1
       THEN object.f[keys[1]]
       ELSE C17_ValueAt(object.f[keys[1]], Tail(keys))
  ELSE Undefined

\* C17: getPropByKeyPath returns the value at the end of the path when every
\* segment exists, the default (null) when a segment is missing, also below a
\* value that is not an object ("", 0, false, null), and never throws.
C17_ResolvesOrAbsent ==
  resolved # NoResolution =>
    LET v == C17_ValueAt(resolved.object, resolved.keys)
    IN resolved.result = (IF v = Undefined THEN Null ELSE v)

\* C18: the request logoutFromApp sends to the logout endpoint has the method of
\* the logout endpoint descriptor, whatever the method of the login endpoint.
C18_LogoutUsesLogoutMethod ==
  last.sent.url = ApiBaseUrl \o LogoutUrl => last.sent.method = config.logoutMethod

\* C19: once the fetchUser() call of the mount effect has returned, isLoggedIn is
\* true or false and no longer null, whether or not a refresh token was stored
\* and whether or not the profile response contained a user.
C19_KnownAfterMount ==
  (last.op = "mount" /\ last.ev \in {"skip", "settle"}) => isLoggedIn # "null"

\* C20: at most one profile fetch started by the polling effect is in flight at
\* any time.
C20_PollNeverOverlaps ==
  BagCardinality([c \in {d \in InFlight : d.op = "poll"} |-> calls[c]]) <= 1

\* an operation of the orchestrator finished in the last task
C21_OperationFinished ==
  /\ last.ev \in {"settle", "sync"}
  /\ last.op \in {"login", "loginWithResponse", "logout", "refresh"} \cup FetchUserOps

\* C21: every failed orchestrator operation calls the error handler exactly once
\* (a successful one never), and that call leaves the store empty, user null,
\* isLoggedIn false, the loading flag cleared and the login page navigated to;
\* the two login operations raise the error again, logout returns false,
\* fetchUser and onRefreshToken return normally.
C21_FailureHandledOnce ==
  C21_OperationFinished =>
    IF last.threw = ""
    THEN last.errors = 0
    ELSE /\ last.errors = 1
         /\ cookies = NoCookies
         /\ user = Null
         /\ isLoggedIn = "false"
         /\ ~isLoading
         /\ last.nav
         /\ last.ret = (CASE last.op \in {"login", "loginWithResponse"} -> "throw"
                          [] last.op = "logout" -> "false"
                          [] OTHER -> "void")

\* onRefreshToken failed on the answer of the refresh endpoint while another call
\* was in flight, with tokens in the store the controller left
C21_Witness ==
  /\ C21_OperationFinished
  /\ last.op = "refresh"
  /\ last.ev = "settle"
  /\ last.threw # ""
  /\ last.ctl.refresh # 0
  /\ calls # EmptyBag

\* C22: token pairs are written whole.  The two tokens of one response carry the
\* same number, so: whenever both tokens are stored they are of the same
\* response, and every task that changes a token entry (the expiry of a cookie
\* apart) leaves the two tokens of one response, or none.
C22_PairWrittenWhole ==
  [][/\ (getAccessToken(cookies') # 0 /\ getRefreshToken(cookies') # 0) =>
          getAccessToken(cookies') = getRefreshToken(cookies')
     /\ (/\ last'.ev # "expire"
         /\ \/ getAccessToken(cookies') # getAccessToken(cookies)
            \/ getRefreshToken(cookies') # getRefreshToken(cookies)) =>
          getAccessToken(cookies') = getRefreshToken(cookies')]_vars

\* a refresh made by the response interceptor stored the second pair while
\* another call is in flight, and the request is sent again
C22_Witness ==
  /\ last.ev = "replay"
  /\ getAccessToken(cookies) = 2
  /\ getRefreshToken(cookies) = 2
  /\ BagCardinality(calls) = 2
  /\ \E c \in InFlight : c.op = "login"

\* C23: the loading flag is true only while an auth operation is in flight: with
\* no call in flight at all (every operation, and every refresh started by the
\* response interceptor, has settled) isAuthStateLoading is false.
C23_LoadingOnlyWhileInFlight ==
  calls = EmptyBag => ~isLoading

\* a login response is ingested by the controller and the ingestion fails: the
\* user path, or a token path, resolves to nothing
C24_IngestionFailed ==
  /\ config.refreshToken
  /\ last.ev \in {"settle", "sync"}
  /\ last.op \in {"login", "loginWithResponse"}
  /\ last.depth = 0
  /\ last.resp.status = 200
  /\ last.threw # ""

\* C24: a failed ingestion of a login response leaves the three store entries,
\* as the controller leaves them, what they were before it; the user entry is
\* not written when the token pair is missing.
C24_FailedIngestionWritesNothing ==
  [][C24_IngestionFailed' => last'.ctl = cookies]_vars

\* C25: every request settles when the server answers every request: only a
\* bounded number of refresh calls is made for one request.  A refresh call that
\* is answered 401 while a refresh token is stored is a failed refresh attempt
\* and starts no refresh call of its own, so the nesting of refresh calls under
\* one request never reaches MaxDepth, the depth up to which the model follows it.
C25_RefreshCallsBounded ==
  \A c \in InFlight : c.depth < MaxDepth

====
